---- MODULE Spec2Model ----
(***************************************************************************)
(* Relation store and transitive reasoning of PavelShpagin/relations.      *)
(*                                                                         *)
(*   lab_ontology.py  : class Ontology, a mutable store (classes,          *)
(*                      instances, instance_of, rels) with the queries     *)
(*                      _reachable / is_a / part_of / depends_on /         *)
(*                      any_path.                                          *)
(*   src/ontology.py  : module-level tables CLASSES, IS_A, PART_OF,        *)
(*                      HAS_PROPERTY, INSTANCE_OF and the functions        *)
(*                      resolve, is_a_transitive, part_of_transitive,      *)
(*                      has_part, has_part_transitive, neighbors,          *)
(*                      connected.                                         *)
(*                                                                         *)
(* Specifications:                                                         *)
(*   Spec      - the store under any sequence of add_* calls;              *)
(*   SpecRun   - one execution of _reachable / any_path, one loop          *)
(*               iteration per step, set iteration order left open;        *)
(*               FairRun adds weak fairness of the loop steps;             *)
(*   FairDepth - one execution of max_depth_from, one loop iteration per   *)
(*               step, under weak fairness of the loop step;               *)
(*   SpecTable - the table-based functions applied to bounded tables.      *)
(***************************************************************************)
EXTENDS Integers, Sequences, FiniteSets, TLC

VARIABLES
    \* lab_ontology.Ontology
    classes, instances, instance_of, rels,
    \* one running query of Ontology (locals of _reachable / any_path)
    pc, call, seen, stack, q, prev, path, ret,
    \* locals of max_depth_from, and the parity of its loop iterations (an
    \* iteration that leaves the capped locals as they were is still a step)
    dstack, best, tick,
    \* src/ontology.py tables and the last call made on them
    CLASSES, IS_A, PART_OF, HAS_PROPERTY, INSTANCE_OF, last

storeVars == <<classes, instances, instance_of, rels>>
runVars   == <<pc, call, seen, stack, q, prev, path, ret, dstack, best, tick>>
tableVars == <<CLASSES, IS_A, PART_OF, HAS_PROPERTY, INSTANCE_OF, last>>
vars      == <<classes, instances, instance_of, rels,
               pc, call, seen, stack, q, prev, path, ret, dstack, best, tick,
               CLASSES, IS_A, PART_OF, HAS_PROPERTY, INSTANCE_OF, last>>

----------------------------------------------------------------------------
(* Bounds *)

\* identifiers handed to the Ontology store; any of them may be used as a
\* class or as an instance, as the code accepts any string in either role
Ids == {"dog", "tail", "leg"}

\* most edges plus instance assignments a store is grown to
MaxFacts == 4

\* most edges of the store a query is run on
MaxRunEdges == 3

\* most edges of the store a query is run on under fairness
MaxFairEdges == 2

\* most edges of the tables the table-based functions are applied to
MaxTableEdges == 2

\* the depth counter of max_depth_from is counted up to MaxDepth and stays
\* there: no acyclic is_a graph over Ids is deeper
MaxDepth == 3

\* the stack of max_depth_from is kept to its MaxStack topmost entries: no
\* acyclic is_a graph over Ids needs more
MaxStack == 3

\* the relations of Ontology.rels, in dict insertion order
RelNames == <<"is_a", "part_of", "depends_on">>

RelSet == {RelNames[i] : i \in 1..Len(RelNames)}

Pairs(S) == S \X S

NoAssignment == [x \in {} |-> ""]

----------------------------------------------------------------------------
(* Generic helpers *)

\* all orders in which a Python set can be iterated
Perms(S) ==
    {s \in [1..Cardinality(S) -> S] : \A i, j \in 1..Cardinality(S) : i # j => s[i] # s[j]}

\* one such order
SetToSeq(S) == CHOOSE s \in Perms(S) : TRUE

\* the subsets of S with at most k elements
RECURSIVE SubsetsUpTo(_, _)
SubsetsUpTo(S, k) ==
    IF k = 0 THEN {{}}
    ELSE LET P == SubsetsUpTo(S, k - 1)
         IN  P \cup {p \cup {e} : p \in P, e \in S}

\* the (source, target) pairs of the edges tagged rel
EdgesOf(E, rel) == {<<e[2], e[3]>> : e \in {f \in E : f[1] = rel}}

\* graph.get(x, ()) on a relation stored as source -> set(target)
Targets(graph, x) == {e[2] : e \in {f \in graph : f[1] = x}}

\* the reflexive-transitive closure of an edge set, as the set of pairs
RECURSIVE ClosureFrom(_, _)
ClosureFrom(graph, reached) ==
    LET next == reached \cup UNION {Targets(graph, x) : x \in reached}
    IN  IF next = reached THEN reached ELSE ClosureFrom(graph, next)

Closure(graph, start) == ClosureFrom(graph, {start})

----------------------------------------------------------------------------
(* lab_ontology.Ontology: construction *)

StoreSize ==
    Cardinality(rels["is_a"]) + Cardinality(rels["part_of"])
        + Cardinality(rels["depends_on"]) + Cardinality(DOMAIN instance_of)

InitStore ==
    /\ classes = {}
    /\ instances = {}
    /\ instance_of = NoAssignment
    /\ rels = [r \in RelSet |-> {}]

\* add_edge without the two add_class calls
add_edge_unregistered(relname, source, target) ==
    /\ rels' = [rels EXCEPT ![relname] = @ \cup {<<source, target>>}]
    /\ UNCHANGED <<classes, instances, instance_of>>

\* rels[relname][source].add(target) after registering both endpoints
add_edge(relname, source, target) ==
    /\ classes' = classes \cup {source, target}
    /\ rels' = [rels EXCEPT ![relname] = @ \cup {<<source, target>>}]
    /\ UNCHANGED <<instances, instance_of>>

add_class(c) ==
    /\ StoreSize < MaxFacts
    /\ classes' = classes \cup {c}
    /\ UNCHANGED <<instances, instance_of, rels>>

add_is_a(child, parent) ==
    /\ StoreSize < MaxFacts
    /\ add_edge("is_a", child, parent)

add_part_of(part, whole) ==
    /\ StoreSize < MaxFacts
    /\ add_edge("part_of", part, whole)

add_depends_on(a, b) ==
    /\ StoreSize < MaxFacts
    /\ add_edge("depends_on", a, b)

\* add_instance without add_class(clazz)
add_instance_unregistered(inst, clazz) ==
    /\ StoreSize < MaxFacts
    /\ instances' = instances \cup {inst}
    /\ instance_of' = [x \in DOMAIN instance_of \cup {inst} |->
                          IF x = inst THEN clazz ELSE instance_of[x]]
    /\ UNCHANGED <<classes, rels>>

add_instance(inst, clazz) ==
    /\ StoreSize < MaxFacts
    /\ classes' = classes \cup {clazz}
    /\ instances' = instances \cup {inst}
    /\ instance_of' = [x \in DOMAIN instance_of \cup {inst} |->
                          IF x = inst THEN clazz ELSE instance_of[x]]
    /\ UNCHANGED rels

----------------------------------------------------------------------------
(* lab_ontology.Ontology: queries as functions of the store *)

\* ReachVisit with the target test skipped on the first pop: the zero-hop
\* case start == target is lost
ReachVisit_NotReflexive(x, target, seenSet) ==
    IF x = target /\ seenSet # {} THEN "return"
    ELSE IF x \in seenSet THEN "continue"
    ELSE "expand"

\* ReachVisit without the visited test
ReachVisit_NoSeen(x, target, seenSet) ==
    IF x = target THEN "return" ELSE "expand"

\* one iteration of the while loop of _reachable on the popped element x:
\* "return" (x == target), "continue" (x in seen) or "expand"
ReachVisit(x, target, seenSet) ==
    IF x = target THEN "return"
    ELSE IF x \in seenSet THEN "continue"
    ELSE "expand"

RECURSIVE ReachLoop(_, _, _, _)
ReachLoop(seenSet, stk, target, graph) ==
    IF stk = <<>> THEN FALSE
    ELSE LET x    == stk[Len(stk)]
             rest == SubSeq(stk, 1, Len(stk) - 1)
             v    == ReachVisit(x, target, seenSet)
         IN  IF v = "return" THEN TRUE
             ELSE IF v = "continue" THEN ReachLoop(seenSet, rest, target, graph)
             ELSE ReachLoop(seenSet \cup {x},
                            rest \o SetToSeq(Targets(graph, x)), target, graph)

reachable(start, target, relname) == ReachLoop({}, <<start>>, target, rels[relname])

is_a(child, parent) == reachable(child, parent, "is_a")

\* self.instance_of.get(x, x) if x in self.instances else x
Lift(x) ==
    IF x \in instances
    THEN (IF x \in DOMAIN instance_of THEN instance_of[x] ELSE x)
    ELSE x

part_of(part, whole) ==
    IF reachable(part, whole, "part_of") THEN TRUE
    ELSE reachable(Lift(part), Lift(whole), "part_of")

depends_on(a, b) == reachable(a, b, "depends_on")

\* self.instance_of.get(inst): the class, or "None"
class_of(inst) == IF inst \in DOMAIN instance_of THEN instance_of[inst] ELSE "None"

----------------------------------------------------------------------------
(* src/ontology.py: name resolution *)

\* the names a caller may pass: the classes, an instance name, an alias
\* ("pes" stands for the Cyrillic alias of "dog", which a TLA+ string cannot
\* hold), a name with surrounding blanks and an unknown term
InstNames == {"rex"}

Terms == Ids \cup InstNames \cup {"pes", " dog", "zzz"}

\* ALIASES, restricted to the names used here ("leg" has no alias)
ALIASES ==
    [k \in {"pes", "dog", "tail"} |->
        IF k = "pes" THEN "dog" ELSE k]

\* name.strip()
Strip(name) == IF name = " dog" THEN "dog" ELSE name

\* the canonical token of a name, or "KeyError"
resolve(name) ==
    LET key == Strip(name)
        instance_classes == {e[1] : e \in INSTANCE_OF} \cup {e[2] : e \in INSTANCE_OF}
    IN  IF key \in DOMAIN ALIASES THEN ALIASES[key]
        ELSE IF key \in CLASSES THEN key
        ELSE IF key \in instance_classes THEN key
        ELSE "KeyError"

\* The outcomes of a loop "for w in W: if test(w): return True" whose items
\* are visited in any order: verdicts[w] is the set of outcomes the test of w
\* can have.  "done" stands for the loop running to its end.
LoopOutcomes(W, verdicts) ==
    {o \in {"True", "KeyError", "AttributeError"} : \E w \in W : o \in verdicts[w]}
        \cup (IF \A w \in W : "False" \in verdicts[w] THEN {"done"} ELSE {})

----------------------------------------------------------------------------
(* src/ontology.py: transitive closures.  Every function is modelled by     *)
(* the set of outcomes it can have over the iteration orders of its sets:   *)
(* "True", "False", or the name of the exception raised.                    *)

RECURSIVE IsABfs(_, _, _)
IsABfs(visited, queue, ancestor) ==
    IF queue = <<>> THEN {"False"}
    ELSE LET node == Head(queue)
             rest == Tail(queue)
             parents == Targets(IS_A, node)
         IN  IF node \in visited THEN IsABfs(visited, rest, ancestor)
             ELSE IF ancestor \in parents THEN {"True"}
             ELSE UNION {IsABfs(visited \cup {node}, rest \o o, ancestor) :
                            o \in Perms(parents)}

is_a_transitive(child0, ancestor0) ==
    LET child == resolve(child0)
        ancestor == resolve(ancestor0)
    IN  IF child = "KeyError" \/ ancestor = "KeyError" THEN {"KeyError"}
        ELSE IF child = ancestor THEN {"True"}
        ELSE IsABfs({}, <<child>>, ancestor)

\* w == whole or is_a_transitive(whole, w)
WholeMatches(w, whole) == IF w = whole THEN {"True"} ELSE is_a_transitive(whole, w)

\* the test of the second loop of part_of_transitive on one super_part
SuperPartMatches(super_part, whole) ==
    IF <<super_part, whole>> \in PART_OF THEN {"True"}
    ELSE LET W == Targets(PART_OF, super_part)
             any == LoopOutcomes(W, [w \in W |-> WholeMatches(w, whole)])
         IN  {IF o = "done" THEN "False" ELSE o : o \in any}

\* PartOfEnqueue without the queue.append(w) of the first loop
PartOfEnqueue_NoWholes(rest, wholesSeq, supersSeq) == rest \o supersSeq

\* the queue after both loops ran to their end: queue.append(w) for every
\* whole, then queue.append(super_part) for every superclass
PartOfEnqueue(rest, wholesSeq, supersSeq) == rest \o wholesSeq \o supersSeq

RECURSIVE PartOfBfs(_, _, _)
PartOfBfs(visited, queue, whole) ==
    IF queue = <<>> THEN {"False"}
    ELSE LET node == Head(queue)
             rest == Tail(queue)
             wholes == Targets(PART_OF, node)
             supers == Targets(IS_A, node)
             first  == LoopOutcomes(wholes, [w \in wholes |-> WholeMatches(w, whole)])
             second == LoopOutcomes(supers, [s \in supers |-> SuperPartMatches(s, whole)])
         IN  IF node \in visited THEN PartOfBfs(visited, rest, whole)
             ELSE (first \ {"done"})
                  \cup (IF "done" \in first THEN second \ {"done"} ELSE {})
                  \cup (IF "done" \in first /\ "done" \in second
                        THEN UNION {PartOfBfs(visited \cup {node}, PartOfEnqueue(rest, o1, o2), whole) :
                                       o1 \in Perms(wholes), o2 \in Perms(supers)}
                        ELSE {})

part_of_transitive(part0, whole0) ==
    LET part == resolve(part0)
        whole == resolve(whole0)
    IN  IF part = "KeyError" \/ whole = "KeyError" THEN {"KeyError"}
        ELSE PartOfBfs({}, <<part>>, whole)

\* has_part testing the pair in the order of its arguments
has_part_swapped(whole0, part0) ==
    LET whole == resolve(whole0)
        part == resolve(part0)
    IN  IF whole = "KeyError" \/ part = "KeyError" THEN {"KeyError"}
        ELSE IF <<whole, part>> \in PART_OF THEN {"True"} ELSE {"False"}

has_part(whole0, part0) ==
    LET whole == resolve(whole0)
        part == resolve(part0)
    IN  IF whole = "KeyError" \/ part = "KeyError" THEN {"KeyError"}
        ELSE IF <<part, whole>> \in PART_OF THEN {"True"} ELSE {"False"}

\* collections.deque has no method update: evaluating queue.update raises
DequeUpdate(direct_parts) == IF direct_parts # {} THEN {"AttributeError"} ELSE {"done"}

RECURSIVE HasPartBfs(_, _, _)
HasPartBfs(visited, queue, part) ==
    IF queue = <<>> THEN {"False"}
    ELSE LET node == Head(queue)
             rest == Tail(queue)
             direct_parts == {e[1] : e \in {f \in PART_OF : f[2] = node}}
             sub == LoopOutcomes(direct_parts,
                                 [p \in direct_parts |-> is_a_transitive(part, p)])
             subclasses == {e[1] : e \in {f \in IS_A : f[2] = node}}
             nested == DequeUpdate(direct_parts)
         IN  IF node \in visited THEN HasPartBfs(visited, rest, part)
             ELSE IF part \in direct_parts THEN {"True"}
             ELSE (sub \ {"done"})
                  \cup (IF "done" \in sub THEN nested \ {"done"} ELSE {})
                  \cup (IF "done" \in sub /\ "done" \in nested
                        THEN UNION {HasPartBfs(visited \cup {node}, rest \o o, part) :
                                       o \in Perms(subclasses)}
                        ELSE {})

has_part_transitive(whole0, part0) ==
    LET whole == resolve(whole0)
        part == resolve(part0)
    IN  IF whole = "KeyError" \/ part = "KeyError" THEN {"KeyError"}
        ELSE HasPartBfs({}, <<whole>>, part)

----------------------------------------------------------------------------
(* src/ontology.py: connectivity *)

\* neighbors without the reverse edges
neighbors_forward(term0) ==
    LET term == resolve(term0)
    IN  IF term = "KeyError" THEN {"KeyError"}
        ELSE Targets(IS_A, term) \cup Targets(PART_OF, term)
             \cup Targets(HAS_PROPERTY, term) \cup Targets(INSTANCE_OF, term)

\* neighbors whose last loop yields nothing for a class: the instances of a
\* class are not its neighbors
neighbors_no_class_instances(term0) ==
    LET term == resolve(term0)
    IN  IF term = "KeyError" THEN {"KeyError"}
        ELSE Targets(IS_A, term) \cup Targets(PART_OF, term)
             \cup Targets(HAS_PROPERTY, term) \cup Targets(INSTANCE_OF, term)
             \cup {e[1] : e \in {f \in IS_A : f[2] = term}}
             \cup {e[1] : e \in {f \in PART_OF : f[2] = term}}
             \cup {e[1] : e \in {f \in HAS_PROPERTY : f[2] = term}}
             \cup UNION {{e[1], e[2]} : e \in {f \in INSTANCE_OF : f[1] = term}}

\* the terms neighbors(term) yields, or {"KeyError"}
neighbors(term0) ==
    LET term == resolve(term0)
    IN  IF term = "KeyError" THEN {"KeyError"}
        ELSE Targets(IS_A, term) \cup Targets(PART_OF, term)
             \cup Targets(HAS_PROPERTY, term) \cup Targets(INSTANCE_OF, term)
             \cup {e[1] : e \in {f \in IS_A : f[2] = term}}
             \cup {e[1] : e \in {f \in PART_OF : f[2] = term}}
             \cup {e[1] : e \in {f \in HAS_PROPERTY : f[2] = term}}
             \cup UNION {{e[1], e[2]} : e \in {f \in INSTANCE_OF : f[2] = term \/ f[1] = term}}

RECURSIVE ConnectedBfs(_, _, _)
ConnectedBfs(visited, queue, b) ==
    IF queue = <<>> THEN {"False"}
    ELSE LET node == Head(queue)
             rest == Tail(queue)
             nbrs == neighbors(node)
             fresh == nbrs \ (visited \cup {node})
         IN  IF node \in visited THEN ConnectedBfs(visited, rest, b)
             ELSE IF nbrs = {"KeyError"} THEN {"KeyError"}
             ELSE IF b \in nbrs THEN {"True"}
             ELSE UNION {ConnectedBfs(visited \cup {node}, rest \o o, b) :
                            o \in Perms(fresh)}

connected(a0, b0) ==
    LET a == resolve(a0)
        b == resolve(b0)
    IN  IF a = "KeyError" \/ b = "KeyError" THEN {"KeyError"}
        ELSE IF a = b THEN {"True"}
        ELSE ConnectedBfs({}, <<a>>, b)

----------------------------------------------------------------------------
(* Idle values of the variables a specification does not use *)

RunIdle ==
    /\ pc = "idle"
    /\ call = [op |-> "none", a |-> "", b |-> "", rel |-> ""]
    /\ seen = {}
    /\ stack = <<>>
    /\ q = <<>>
    /\ prev = NoAssignment
    /\ path = <<>>
    /\ ret = "none"
    /\ dstack = <<>>
    /\ best = 0
    /\ tick = 0

TableIdle ==
    /\ CLASSES = {}
    /\ IS_A = {}
    /\ PART_OF = {}
    /\ HAS_PROPERTY = {}
    /\ INSTANCE_OF = {}
    /\ last = [op |-> "none", a |-> "", b |-> "", res |-> "none"]

----------------------------------------------------------------------------
(* Spec: the store under any sequence of add_* calls *)

Init == InitStore /\ RunIdle /\ TableIdle

AddClass == \E c \in Ids : add_class(c) /\ UNCHANGED <<runVars, tableVars>>

AddIsA == \E c, p \in Ids : add_is_a(c, p) /\ UNCHANGED <<runVars, tableVars>>

AddPartOf == \E p, w \in Ids : add_part_of(p, w) /\ UNCHANGED <<runVars, tableVars>>

AddDependsOn == \E a, b \in Ids : add_depends_on(a, b) /\ UNCHANGED <<runVars, tableVars>>

AddInstance == \E i, c \in Ids : add_instance(i, c) /\ UNCHANGED <<runVars, tableVars>>

Next == AddClass \/ AddIsA \/ AddPartOf \/ AddDependsOn \/ AddInstance

Spec == Init /\ [][Next]_vars

----------------------------------------------------------------------------
(* lab_ontology.Ontology.any_path: helpers of the stepwise execution *)

\* Discover following the edges of the first relation only
RECURSIVE Discover_FirstRelation(_, _, _, _)
Discover_FirstRelation(items, x, prevF, queue) ==
    IF items = <<>> THEN [prev |-> prevF, q |-> queue]
    ELSE LET y == Head(items)[1]
             relname == Head(items)[2]
         IN  IF y \notin DOMAIN prevF /\ relname = RelNames[1]
             THEN Discover_FirstRelation(Tail(items), x,
                           [n \in DOMAIN prevF \cup {y} |->
                               IF n = y THEN <<x, relname>> ELSE prevF[n]],
                           Append(queue, <<y, relname>>))
             ELSE Discover_FirstRelation(Tail(items), x, prevF, queue)

\* the inner loops of any_path over items <<y, relname>> reached from x, in
\* the order given: an undiscovered y gets its predecessor and is enqueued
RECURSIVE Discover(_, _, _, _)
Discover(items, x, prevF, queue) ==
    IF items = <<>> THEN [prev |-> prevF, q |-> queue]
    ELSE LET y == Head(items)[1]
             relname == Head(items)[2]
         IN  IF y \notin DOMAIN prevF
             THEN Discover(Tail(items), x,
                           [n \in DOMAIN prevF \cup {y} |->
                               IF n = y THEN <<x, relname>> ELSE prevF[n]],
                           Append(queue, <<y, relname>>))
             ELSE Discover(Tail(items), x, prevF, queue)

\* the while loop that walks the predecessor pointers back from cur
RECURSIVE WalkBack(_, _, _)
WalkBack(prevF, cur, acc) ==
    IF prevF[cur][1] = "None" THEN acc
    ELSE WalkBack(prevF, prevF[cur][1], Append(acc, <<prevF[cur][1], prevF[cur][2], cur>>))

\* the path left in the order the walk back built it
Reverse_Missing(s) == s

\* path.reverse()
Reverse(s) == [i \in 1..Len(s) |-> s[Len(s) + 1 - i]]

ReconstructPath(prevF, b) == Reverse(WalkBack(prevF, b, <<>>))

----------------------------------------------------------------------------
(* Seed data.  Both modules are filled from one list E of tagged edges      *)
(* <<relation, source, target>>: the Ontology store by the add_* calls of   *)
(* load_ontology (is_a, part_of, depends_on, instance_of), the tables of    *)
(* src/ontology.py by their literals (is_a, part_of, has_property,          *)
(* instance_of).  CLASSES holds every class name.                           *)

Functional(edges) == \A e, f \in edges : e[1] = f[1] => e[2] = f[2]

Load(E) ==
    LET inst == EdgesOf(E, "instance_of")
        classEdges == {e \in E : e[1] \in RelSet}
    IN  /\ rels = [r \in RelSet |-> EdgesOf(E, r)]
        /\ classes = {e[2] : e \in classEdges} \cup {e[3] : e \in classEdges}
                        \cup {e[2] : e \in inst}
        /\ instances = {e[1] : e \in inst}
        /\ instance_of = [i \in {e[1] : e \in inst} |->
                             CHOOSE c \in Ids : <<i, c>> \in inst]
        /\ CLASSES = Ids
        /\ IS_A = EdgesOf(E, "is_a")
        /\ PART_OF = EdgesOf(E, "part_of")
        /\ HAS_PROPERTY = EdgesOf(E, "has_property")
        /\ INSTANCE_OF = inst

----------------------------------------------------------------------------
(* SpecRun: one query of Ontology executed one loop iteration per step, on *)
(* a store built from a bounded edge list; the same is_a edge list is the  *)
(* IS_A table of the table-based module.                                   *)

RunEdgeUniverse == RelSet \X Ids \X Ids

InitRunUpTo(k) ==
    /\ \E E \in SubsetsUpTo(RunEdgeUniverse, k) : Load(E)
    /\ RunIdle
    /\ last = [op |-> "none", a |-> "", b |-> "", res |-> "none"]

InitRun == InitRunUpTo(MaxRunEdges)

InitFair == InitRunUpTo(MaxFairEdges)

CallReachable ==
    \E start, target \in Ids, relname \in RelSet :
        /\ pc = "idle"
        /\ last.op = "none"
        /\ pc' = "reach"
        /\ call' = [op |-> "_reachable", a |-> start, b |-> target, rel |-> relname]
        /\ seen' = {}
        /\ stack' = <<start>>
        /\ UNCHANGED <<q, prev, path, ret, dstack, best, tick, storeVars, tableVars>>

\* one iteration of "while stack:", or the return False after it
ReachStep ==
    /\ pc = "reach"
    /\ IF stack = <<>>
       THEN /\ ret' = "False"
            /\ pc' = "done"
            /\ UNCHANGED <<seen, stack>>
       ELSE LET x    == stack[Len(stack)]
                rest == SubSeq(stack, 1, Len(stack) - 1)
                v    == ReachVisit(x, call.b, seen)
            IN  \/ /\ v = "return"
                   /\ ret' = "True"
                   /\ pc' = "done"
                   /\ stack' = rest
                   /\ UNCHANGED seen
                \/ /\ v = "continue"
                   /\ stack' = rest
                   /\ UNCHANGED <<seen, ret, pc>>
                \/ /\ v = "expand"
                   /\ seen' = seen \cup {x}
                   /\ \E o \in Perms(Targets(rels[call.rel], x)) : stack' = rest \o o
                   /\ UNCHANGED <<ret, pc>>
    /\ UNCHANGED <<call, q, prev, path, dstack, best, tick, storeVars, tableVars>>

CallAnyPath ==
    \E a, b \in Ids :
        /\ pc = "idle"
        /\ last.op = "none"
        /\ pc' = "path"
        /\ call' = [op |-> "any_path", a |-> a, b |-> b, rel |-> ""]
        /\ q' = <<<<a, "None">>>>
        /\ prev' = [n \in {a} |-> <<"None", "None">>]
        /\ UNCHANGED <<seen, stack, path, ret, dstack, best, tick, storeVars, tableVars>>

\* one iteration of "while q:", or the return None after it
PathStep ==
    /\ pc = "path"
    /\ IF q = <<>>
       THEN /\ ret' = "None"
            /\ pc' = "done"
            /\ UNCHANGED <<q, prev, path>>
       ELSE LET x == Head(q)[1]
            IN  \/ /\ x = call.b
                   /\ path' = ReconstructPath(prev, call.b)
                   /\ ret' = "path"
                   /\ pc' = "done"
                   /\ q' = Tail(q)
                   /\ UNCHANGED prev
                \/ /\ x # call.b
                   /\ \E o1 \in Perms(Targets(rels[RelNames[1]], x)),
                         o2 \in Perms(Targets(rels[RelNames[2]], x)),
                         o3 \in Perms(Targets(rels[RelNames[3]], x)) :
                         LET items == [i \in DOMAIN o1 |-> <<o1[i], RelNames[1]>>]
                                      \o [i \in DOMAIN o2 |-> <<o2[i], RelNames[2]>>]
                                      \o [i \in DOMAIN o3 |-> <<o3[i], RelNames[3]>>]
                             d == Discover(items, x, prev, Tail(q))
                         IN  /\ prev' = d.prev
                             /\ q' = d.q
                   /\ UNCHANGED <<path, ret, pc>>
    /\ UNCHANGED <<call, seen, stack, dstack, best, tick, storeVars, tableVars>>

\* is_a_transitive applied to the same is_a edge list
RunIsATransitive ==
    \E a, b \in Ids :
        /\ pc = "idle"
        /\ last.op = "none"
        /\ \E r \in is_a_transitive(a, b) :
              last' = [op |-> "is_a_transitive", a |-> a, b |-> b, res |-> r]
        /\ UNCHANGED <<CLASSES, IS_A, PART_OF, HAS_PROPERTY, INSTANCE_OF, runVars, storeVars>>

NextRun == CallReachable \/ ReachStep \/ CallAnyPath \/ PathStep \/ RunIsATransitive

SpecRun == InitRun /\ [][NextRun]_vars

\* a call, once made, runs to its end: the interpreter keeps executing it
FairRun == InitFair /\ [][NextRun]_vars /\ WF_vars(ReachStep) /\ WF_vars(PathStep)

----------------------------------------------------------------------------
(* FairDepth: one call of Ontology.max_depth_from executed one loop         *)
(* iteration per step, on a store built from a bounded edge list.           *)

\* down[node]: the children of node in the inverted is_a graph
Down(node) == {e[1] : e \in {f \in rels["is_a"] : f[2] = node}}

\* d + 1, counted up to MaxDepth
NextDepthOf(d) == IF d < MaxDepth THEN d + 1 ELSE MaxDepth

\* the MaxStack topmost entries of the stack
KeepTop(s) == IF Len(s) <= MaxStack THEN s ELSE SubSeq(s, Len(s) - MaxStack + 1, Len(s))

\* max(best, d)
MaxOf(a, b) == IF a >= b THEN a ELSE b

CallMaxDepth ==
    \E root \in Ids :
        /\ pc = "idle"
        /\ last.op = "none"
        /\ call' = [op |-> "max_depth_from", a |-> root, b |-> "", rel |-> "is_a"]
        /\ best' = 0
        /\ IF root \notin classes
           THEN /\ ret' = "int"
                /\ pc' = "done"
                /\ UNCHANGED dstack
           ELSE /\ pc' = "depth"
                /\ dstack' = <<<<root, 1>>>>
                /\ UNCHANGED ret
        /\ UNCHANGED <<seen, stack, q, prev, path, tick, storeVars, tableVars>>

\* one iteration of "while stack:", or the return best after it
DepthStep ==
    /\ pc = "depth"
    /\ IF dstack = <<>>
       THEN /\ ret' = "int"
            /\ pc' = "done"
            /\ UNCHANGED <<dstack, best, tick>>
       ELSE LET node == dstack[Len(dstack)][1]
                d    == dstack[Len(dstack)][2]
                rest == SubSeq(dstack, 1, Len(dstack) - 1)
            IN  /\ best' = MaxOf(best, d)
                /\ tick' = 1 - tick
                /\ \E o \in Perms(Down(node)) :
                      dstack' = KeepTop(rest \o [i \in DOMAIN o |-> <<o[i], NextDepthOf(d)>>])
                /\ UNCHANGED <<ret, pc>>
    /\ UNCHANGED <<call, seen, stack, q, prev, path, storeVars, tableVars>>

NextDepth == CallMaxDepth \/ DepthStep

\* the call, once made, keeps running
FairDepth == InitFair /\ [][NextDepth]_vars /\ WF_vars(DepthStep)

----------------------------------------------------------------------------
(* SpecTable: the table-based functions applied to bounded tables whose     *)
(* edge endpoints are classes and whose instances are assigned to classes,  *)
(* as in the module's own tables.                                           *)

TableEdgeUniverse ==
    ({"is_a", "part_of", "has_property"} \X Ids \X Ids)
        \cup ({"instance_of"} \X InstNames \X Ids)

InitTable ==
    /\ RunIdle
    /\ \E E \in SubsetsUpTo(TableEdgeUniverse, MaxTableEdges) :
          /\ Functional(EdgesOf(E, "instance_of"))
          /\ Load(E)
    /\ last = [op |-> "none", a |-> "", b |-> "", res |-> "none"]

\* each function is called once, with any two names, on the tables drawn
CallIsATransitive ==
    \E a, b \in Terms :
        /\ last.op = "none"
        /\ \E r \in is_a_transitive(a, b) :
              last' = [op |-> "is_a_transitive", a |-> a, b |-> b, res |-> r]
        /\ UNCHANGED <<CLASSES, IS_A, PART_OF, HAS_PROPERTY, INSTANCE_OF, runVars, storeVars>>

CallPartOfTransitive ==
    \E a, b \in Terms :
        /\ last.op = "none"
        /\ \E r \in part_of_transitive(a, b) :
              last' = [op |-> "part_of_transitive", a |-> a, b |-> b, res |-> r]
        /\ UNCHANGED <<CLASSES, IS_A, PART_OF, HAS_PROPERTY, INSTANCE_OF, runVars, storeVars>>

CallHasPart ==
    \E a, b \in Terms :
        /\ last.op = "none"
        /\ \E r \in has_part(a, b) :
              last' = [op |-> "has_part", a |-> a, b |-> b, res |-> r]
        /\ UNCHANGED <<CLASSES, IS_A, PART_OF, HAS_PROPERTY, INSTANCE_OF, runVars, storeVars>>

CallHasPartTransitive ==
    \E a, b \in Terms :
        /\ last.op = "none"
        /\ \E r \in has_part_transitive(a, b) :
              last' = [op |-> "has_part_transitive", a |-> a, b |-> b, res |-> r]
        /\ UNCHANGED <<CLASSES, IS_A, PART_OF, HAS_PROPERTY, INSTANCE_OF, runVars, storeVars>>

CallConnected ==
    \E a, b \in Terms :
        /\ last.op = "none"
        /\ \E r \in connected(a, b) :
              last' = [op |-> "connected", a |-> a, b |-> b, res |-> r]
        /\ UNCHANGED <<CLASSES, IS_A, PART_OF, HAS_PROPERTY, INSTANCE_OF, runVars, storeVars>>

NextTable ==
    CallIsATransitive \/ CallPartOfTransitive \/ CallHasPart
        \/ CallHasPartTransitive \/ CallConnected

SpecTable == InitTable /\ [][NextTable]_vars

----------------------------------------------------------------------------
(* Reference notions the claims are stated with *)

\* what is reachable from start by one or more edges
ClosurePlus(graph, start) == UNION {Closure(graph, y) : y \in Targets(graph, start)}

\* every is_a, part_of, has_property and instance-of pair, in both directions
UndirectedEdges ==
    LET E == IS_A \cup PART_OF \cup HAS_PROPERTY \cup INSTANCE_OF
    IN  E \cup {<<e[2], e[1]>> : e \in E}

\* the names the table-based module knows after resolution
Known(name) == resolve(name) # "KeyError"

Bool(b) == IF b THEN "True" ELSE "False"

\* the edges of all relations of the store together
AllEdges == UNION {rels[r] : r \in RelSet}

\* the least number of edges of a directed path from the frontier to target,
\* n edges away from the start; -1 if there is none
RECURSIVE DistFrom(_, _, _, _, _)
DistFrom(graph, frontier, reached, target, n) ==
    IF target \in frontier THEN n
    ELSE LET next == UNION {Targets(graph, x) : x \in frontier} \ reached
         IN  IF next = {} THEN -1
             ELSE DistFrom(graph, next, reached \cup next, target, n + 1)

Dist(graph, a, b) == DistFrom(graph, {a}, {a}, b, 0)

\* an identifier the store holds neither as a class nor as an instance
Absent(x) == x \notin classes \cup instances

----------------------------------------------------------------------------
(* Claims *)

\* C1: the single-relation reachability query returns true exactly when the
\* target is in the reflexive-transitive closure of the relation's stored
\* edges from the start: for every finished run of _reachable, whatever the
\* iteration order, and for every call of is_a_transitive.
C1_ReachableIsClosure ==
    /\ (pc = "done" /\ call.op = "_reachable")
          => (ret = Bool(call.b \in Closure(rels[call.rel], call.a)))
    /\ (last.op = "is_a_transitive")
          => (last.res = Bool(last.b \in Closure(IS_A, last.a)))

\* a finished _reachable run that answered true over a chain of two or more
\* edges
C1_Witness ==
    /\ pc = "done"
    /\ call.op = "_reachable"
    /\ ret = "True"
    /\ call.a # call.b
    /\ <<call.a, call.b>> \notin rels[call.rel]

\* C2: every call of _reachable terminates with a boolean, also on a store
\* whose relation has a cycle and for a target that is not reachable.
C2_ReachableTerminates ==
    (pc = "reach") ~> (pc = "done" /\ ret \in {"True", "False"})

\* a run over a two-node cycle that ended with false
C2_Witness ==
    /\ pc = "done"
    /\ call.op = "_reachable"
    /\ ret = "False"
    /\ \E y \in Ids : /\ y # call.a
                      /\ <<call.a, y>> \in rels[call.rel]
                      /\ <<y, call.a>> \in rels[call.rel]

\* C3: once an instance has a class, no later add_instance changes it.
C3_NoReassignment ==
    [][\A i \in DOMAIN instance_of : instance_of'[i] = instance_of[i]]_vars

\* C4: instance lifting: for every instance i of class C and every W,
\* part_of(C, W) implies part_of(i, W).
C4_InstanceLifting ==
    \A i \in instances : \A W \in Ids :
        part_of(instance_of[i], W) => part_of(i, W)

\* C5: if w is reachable from p by one or more direct part_of edges, both
\* part-of queries answer true for (p, w).
C5_PartOfChain ==
    /\ (/\ last.op = "part_of_transitive"
        /\ last.a \in Ids
        /\ last.b \in ClosurePlus(PART_OF, last.a))
          => last.res = "True"
    /\ \A p \in Ids : \A w \in ClosurePlus(rels["part_of"], p) : part_of(p, w)

\* part_of_transitive answered true for a chain of two edges with no direct
\* edge and no is_a edge to help
C5_Witness ==
    /\ last.op = "part_of_transitive"
    /\ last.res = "True"
    /\ last.a \in Ids
    /\ last.a # last.b
    /\ <<last.a, last.b>> \notin PART_OF
    /\ IS_A = {}
    /\ last.b \in ClosurePlus(PART_OF, last.a)

\* C6: for known identifiers, connected(a, b) returns true exactly when
\* a == b or b is reachable from a over the undirected edges, and false
\* otherwise.
C6_ConnectedIsUndirectedReach ==
    (last.op = "connected" /\ Known(last.a) /\ Known(last.b))
        => last.res = Bool(resolve(last.b) \in Closure(UndirectedEdges, resolve(last.a)))

\* connected answered true for two canonical names joined only by a path
\* that uses an edge against its direction
C6_Witness ==
    /\ last.op = "connected"
    /\ last.res = "True"
    /\ last.a \in Ids /\ last.b \in Ids
    /\ last.a # last.b
    /\ <<last.a, last.b>> \notin UndirectedEdges
    /\ last.b \notin Closure(IS_A \cup PART_OF \cup HAS_PROPERTY \cup INSTANCE_OF, last.a)

\* C7: connectivity is symmetric: for known identifiers a and b,
\* connected(b, a) returns the boolean connected(a, b) returned.
C7_ConnectedSymmetric ==
    (last.op = "connected" /\ Known(last.a) /\ Known(last.b))
        => /\ last.res \in {"True", "False"}
           /\ connected(last.b, last.a) = {last.res}

\* connected answered true from a class to one of its instances
C7_Witness ==
    /\ last.op = "connected"
    /\ last.res = "True"
    /\ last.a \in Ids
    /\ <<last.b, last.a>> \in INSTANCE_OF

\* C8: a non-empty path returned by any_path is a chain of stored edges
\* from a to b.
C8_PathValid ==
    (pc = "done" /\ ret = "path" /\ path # <<>>)
        => /\ \A i \in 1..Len(path) :
                 /\ path[i][2] \in RelSet
                 /\ path[i][3] \in Targets(rels[path[i][2]], path[i][1])
           /\ path[1][1] = call.a
           /\ path[Len(path)][3] = call.b
           /\ \A i \in 1..(Len(path) - 1) : path[i][3] = path[i + 1][1]

\* any_path returned a path of two edges
C8_Witness ==
    /\ pc = "done"
    /\ ret = "path"
    /\ Len(path) = 2

\* C9: whenever part_of_transitive(part, whole) is true,
\* has_part_transitive(whole, part) returns true.
C9_HasPartAtLeastPartOf ==
    (/\ last.op = "has_part_transitive"
     /\ last.a \in Ids /\ last.b \in Ids
     /\ "True" \in part_of_transitive(last.b, last.a))
        => last.res = "True"

\* C10: has_part(whole, part) is true exactly for the direct part_of edges
\* (part, whole), and has_part_transitive(whole, part) is true for each of
\* them.
C10_DirectParts ==
    /\ (last.op = "has_part" /\ last.a \in Ids /\ last.b \in Ids)
          => last.res = Bool(<<last.b, last.a>> \in PART_OF)
    /\ (last.op = "has_part_transitive" /\ <<last.b, last.a>> \in PART_OF)
          => last.res = "True"

\* has_part_transitive answered true for a stored edge whose whole has a
\* second part
C10_Witness ==
    /\ last.op = "has_part_transitive"
    /\ <<last.b, last.a>> \in PART_OF
    /\ last.res = "True"
    /\ Cardinality(PART_OF) = 2
    /\ \A e \in PART_OF : e[2] = last.a

\* C11 (as claimed): if an argument of is_a, part_of or depends_on is absent
\* from the store, the query returns false.
C11_UnknownIsFalse ==
    \A a, b \in Ids :
        (Absent(a) \/ Absent(b))
            => (~is_a(a, b) /\ ~part_of(a, b) /\ ~depends_on(a, b))

\* C11 (amended): if an argument of is_a, part_of or depends_on is absent
\* from the store, the query returns true when the two arguments are equal
\* and false when they differ.
C11_UnknownIsFalseUnlessEqual ==
    \A a, b \in Ids :
        (Absent(a) \/ Absent(b))
            => /\ is_a(a, b) = (a = b)
               /\ part_of(a, b) = (a = b)
               /\ depends_on(a, b) = (a = b)

\* a store with an absent identifier next to an instance whose class has a
\* part_of edge: the lifting branch of part_of is taken with an absent
\* argument
C11_Witness ==
    \E a, b \in Ids :
        /\ Absent(a)
        /\ b \in instances
        /\ b \notin classes
        /\ Targets(rels["part_of"], instance_of[b]) # {}

\* C12: no identifier is both a class and an instance.
C12_KindsDisjoint == classes \cap instances = {}

\* C13: every endpoint of every is_a, part_of and depends_on edge is a
\* class, and so is the class recorded for every instance.
C13_EndpointsRegistered ==
    /\ \A r \in RelSet : \A e \in rels[r] : e[1] \in classes /\ e[2] \in classes
    /\ \A i \in DOMAIN instance_of : instance_of[i] \in classes

\* a store with an edge in each relation and an instance whose class is on
\* no edge
C13_Witness ==
    /\ \A r \in RelSet : rels[r] # {}
    /\ \E i \in DOMAIN instance_of :
          \A r \in RelSet : \A e \in rels[r] :
              e[1] # instance_of[i] /\ e[2] # instance_of[i]

\* C14: every call of max_depth_from terminates, also on a store whose is_a
\* edges contain a cycle reachable from the root.
C14_MaxDepthTerminates == (pc = "depth") ~> (pc = "done")

\* C15: any_path returns None exactly when b is not reachable from a over
\* the directed edges of all relations together; otherwise it returns a
\* path with the least possible number of edges (none when a == b).
C15_PathShortest ==
    (pc = "done" /\ call.op = "any_path")
        => IF call.b \in Closure(AllEdges, call.a)
           THEN ret = "path" /\ Len(path) = Dist(AllEdges, call.a, call.b)
           ELSE ret = "None"

\* any_path returned the direct edge although a route of two edges exists
C15_Witness ==
    /\ pc = "done"
    /\ call.op = "any_path"
    /\ ret = "path"
    /\ Len(path) = 1
    /\ \E x \in Ids \ {call.a, call.b} :
          <<call.a, x>> \in AllEdges /\ <<x, call.b>> \in AllEdges

====
